---- MODULE Spec2Model ----
(***************************************************************************)
(* Model of notebooks/S10B_Multicore_Parallelism.ipynb.                    *)
(*                                                                         *)
(* The notebook drives concurrent.futures.ProcessPoolExecutor and          *)
(* multiprocessing (Pool, Process, Queue, Value, Array) of CPython 3.7 (the *)
(* kernel the notebook names, line 899).  Each action below is one step of *)
(* a notebook cell together with what the called library routine does to   *)
(* the objects the cell holds (the Future list res, the pool, the shared   *)
(* counter).  Line numbers are those of the .ipynb file.                   *)
(***************************************************************************)
EXTENDS Integers, Sequences, FiniteSets, TLC

\* ------------------------------------------------------------------ bounds
\* njobs of the cancel/callback cell (24 at line 241), cut down.
NJobs == 4
\* Stand-in for the largest finite float: x**2 above it raises OverflowError.
FloatMax == 50

\* ProcessPoolExecutor(max_workers=4) (line 245), cut down with njobs.
max_workers == 2
\* Most callbacks registered on one future.
MaxCallbacks == 2

\* The call queue of a ProcessPoolExecutor holds max_workers + 1 call items
\* (EXTRA_QUEUED_CALLS = 1): work handed to it is already marked RUNNING.
CallQueueSize == max_workers + 1

\* ------------------------------------------------------------- task bodies
\* def f1(x): return x**2        (lines 192-193); float ** overflows by raising.
f1(x) ==
  IF x * x > FloatMax THEN [ok |-> FALSE, val |-> 0] ELSE [ok |-> TRUE, val |-> x * x]

\* def f2(x, y): return x*y      (lines 195-196)
f2(x, y) == [ok |-> TRUE, val |-> x * y]

\* The callables with arguments handed to pool.submit (lines 206-208, 248).
Tasks == { [fn |-> "f2", args |-> <<1, 2>>], [fn |-> "f1", args |-> <<FloatMax>>] }

NoTask == [fn |-> "none", args |-> <<>>]
NoResult == [ok |-> TRUE, val |-> -1]

\* What a worker process obtains by calling the task: a value or an exception.
Call(t) == IF t.fn = "f1" THEN f1(t.args[1]) ELSE f2(t.args[1], t.args[2])

Jobs == 1..NJobs

VARIABLES
  pc,                 \* position of the cell's driver code
  nsub,               \* len(res): futures created so far
  k,                  \* index of the collecting loop (line 255)
  task,               \* task[j]: the work item of future j
  fstate,             \* Future._state
  fresult,            \* Future._result / Future._exception
  callbacks,          \* len(Future._done_callbacks)
  invoked,            \* how many times a done-callback of j was called
  pending_work_items, \* executor._pending_work_items (keys)
  work_ids,           \* executor._work_ids (FIFO)
  call_queue,         \* executor._call_queue (FIFO, bounded)
  executing,          \* jobs whose body a worker process is running
  result_queue,       \* executor._result_queue (FIFO)
  executed,           \* executed[j]: how many times the body of j was started
  shutdown_thread,    \* executor._shutdown_thread
  mgmt,               \* the queue management thread: "running" or "exited"
  got,                \* got[j]: what x.result() gave the driver (line 260)
  ret,                \* what the last cancel() / submit() call returned or raised
  \* --- Pool.map on a multiprocessing Pool (lines 526-529)
  m_pc,               \* the caller of map: "idle", "blocked", "returned"
  m_fn,               \* the function mapped
  m_xs,               \* the iterable, as a list
  m_chunk,            \* MapResult._chunksize
  m_taskq,            \* the chunks not yet taken by a worker (FIFO)
  m_running,          \* the chunks worker processes are running
  m_outq,             \* the pool's outqueue of (i, result) (FIFO)
  m_value,            \* MapResult._value
  m_left,             \* MapResult._number_left
  m_order,            \* the chunk numbers in the order their results arrived
  m_res,              \* what map returned
  m_ref,              \* what the map of the cell before returned
  m_round,            \* 1: the cell with the default chunksize, 2: the next
  m_ready,            \* what the print(res.ready()) calls printed, in order
  \* --- mp.Process cells (lines 716-788)
  p_overlap,          \* FALSE: each child is joined before the next starts
  p_pc,               \* position of the cells' driver code
  p_i,                \* loop index: children started by the running loop
  p_counter,          \* the parent's global variable counter (an int)
  p_cval,             \* counter.value of the mp.Value
  p_store,            \* the mp.Array store
  child,              \* the child processes of the running loop
  \* --- mp.Queue cell (lines 663-672)
  q_pc,               \* the loop's position: "start", "get", "join", "done"
  q_i,                \* the loop index i
  q_child,            \* the child process of the running iteration
  q_buffer,           \* the queue's buffer in the child, emptied by its feeder thread
  q_pipe,             \* the queue's pipe: the items a get() can read (FIFO)
  q_res,              \* the list res
  \* --- Pool.apply / Pool.apply_async cells (lines 585-604)
  a_mode,             \* which cell runs: "apply" or "apply_async"
  a_pc,               \* the cell's position: "submit", "wait", "get", "done"
  a_i,                \* the loop index i
  a_k,                \* index of the next r.get() of the print (line 604)
  a_taskq,            \* the pool's task queue (FIFO)
  a_running,          \* the jobs worker processes are running
  a_outq,             \* the pool's outqueue of (job, value) (FIFO)
  a_value,            \* a_value[j]: ApplyResult._value of job j, None until set
  a_res               \* the list the cell prints

vars == <<pc, nsub, k, task, fstate, fresult, callbacks, invoked,
          pending_work_items, work_ids, call_queue, executing, result_queue,
          executed, shutdown_thread, mgmt, got, ret,
          m_pc, m_fn, m_xs, m_chunk, m_taskq, m_running, m_outq, m_value,
          m_left, m_order, m_res, m_ref, m_round, m_ready,
          p_overlap, p_pc, p_i, p_counter, p_cval, p_store, child,
          q_pc, q_i, q_child, q_buffer, q_pipe, q_res,
          a_mode, a_pc, a_i, a_k, a_taskq, a_running, a_outq, a_value, a_res>>

futvars == <<task, fstate, fresult, callbacks, invoked>>
poolvars == <<pending_work_items, work_ids, call_queue, executing, result_queue,
              executed, shutdown_thread, mgmt>>

mapvars == <<m_pc, m_fn, m_xs, m_chunk, m_taskq, m_running, m_outq, m_value,
             m_left, m_order, m_res, m_ref, m_round, m_ready>>
procvars == <<p_overlap, p_pc, p_i, p_counter, p_cval, p_store, child>>
queuevars == <<q_pc, q_i, q_child, q_buffer, q_pipe, q_res>>
applyvars == <<a_mode, a_pc, a_i, a_k, a_taskq, a_running, a_outq, a_value, a_res>>
execvars == <<pc, nsub, k, futvars, poolvars, got, ret>>

\* The executor of the cancel/callback cell before its first submit.
InitExecutorAt(p) ==
  /\ pc = p
  /\ nsub = 0
  /\ k = 1
  /\ task = [j \in Jobs |-> NoTask]
  /\ fstate = [j \in Jobs |-> "NONE"]
  /\ fresult = [j \in Jobs |-> NoResult]
  /\ callbacks = [j \in Jobs |-> 0]
  /\ invoked = [j \in Jobs |-> 0]
  /\ pending_work_items = {}
  /\ work_ids = <<>>
  /\ call_queue = <<>>
  /\ executing = {}
  /\ result_queue = <<>>
  /\ executed = [j \in Jobs |-> 0]
  /\ shutdown_thread = FALSE
  /\ mgmt = "running"
  /\ got = [j \in Jobs |-> NoResult]
  /\ ret = "none"

InitExecutor == InitExecutorAt("submit")

\* ------------------------------------------------------------ Future methods
Done(j) == fstate[j] \in {"CANCELLED", "CANCELLED_AND_NOTIFIED", "FINISHED"}
Cancelled(j) == fstate[j] \in {"CANCELLED", "CANCELLED_AND_NOTIFIED"}

\* Mutant of cancel: the RUNNING check is missing.
cancel_NoRunningCheck(j) ==
  IF fstate[j] = "FINISHED"
    THEN ret' = "False" /\ UNCHANGED futvars
    ELSE IF Cancelled(j)
      THEN ret' = "True" /\ UNCHANGED futvars
      ELSE /\ fstate' = [fstate EXCEPT ![j] = "CANCELLED"]
           /\ invoked' = [invoked EXCEPT ![j] = @ + callbacks[j]]
           /\ ret' = "True"
           /\ UNCHANGED <<task, fresult, callbacks>>

\* Mutant of cancel: a finished future is reported as cancelled.
cancel_FinishedReturnsTrue(j) ==
  IF fstate[j] = "RUNNING"
    THEN ret' = "False" /\ UNCHANGED futvars
    ELSE IF Done(j)
      THEN ret' = "True" /\ UNCHANGED futvars
      ELSE /\ fstate' = [fstate EXCEPT ![j] = "CANCELLED"]
           /\ invoked' = [invoked EXCEPT ![j] = @ + callbacks[j]]
           /\ ret' = "True"
           /\ UNCHANGED <<task, fresult, callbacks>>

\* Mutant of cancel: the callbacks of a cancelled future are not invoked.
cancel_NoCallbacks(j) ==
  IF fstate[j] \in {"RUNNING", "FINISHED"}
    THEN ret' = "False" /\ UNCHANGED futvars
    ELSE IF Cancelled(j)
      THEN ret' = "True" /\ UNCHANGED futvars
      ELSE /\ fstate' = [fstate EXCEPT ![j] = "CANCELLED"]
           /\ ret' = "True"
           /\ UNCHANGED <<task, fresult, callbacks, invoked>>

\* Future.cancel(): False when RUNNING or FINISHED, True when already
\* cancelled, else the state becomes CANCELLED and the callbacks are invoked.
cancel(j) ==
  IF fstate[j] \in {"RUNNING", "FINISHED"}
    THEN ret' = "False" /\ UNCHANGED futvars
    ELSE IF Cancelled(j)
      THEN ret' = "True" /\ UNCHANGED futvars
      ELSE /\ fstate' = [fstate EXCEPT ![j] = "CANCELLED"]
           /\ invoked' = [invoked EXCEPT ![j] = @ + callbacks[j]]
           /\ ret' = "True"
           /\ UNCHANGED <<task, fresult, callbacks>>

\* Future.add_done_callback(fn): queued while the future is not done, called
\* at once when it is.
add_done_callback(j) ==
  IF Done(j)
    THEN invoked' = [invoked EXCEPT ![j] = @ + 1] /\ UNCHANGED callbacks
    ELSE callbacks' = [callbacks EXCEPT ![j] = @ + 1] /\ UNCHANGED invoked

\* Future.set_result / set_exception, called by the queue management thread.
set_outcome(j, r) ==
  /\ fstate' = [fstate EXCEPT ![j] = "FINISHED"]
  /\ fresult' = [fresult EXCEPT ![j] = r]
  /\ invoked' = [invoked EXCEPT ![j] = @ + callbacks[j]]
  /\ UNCHANGED <<task, callbacks>>

\* ----------------------------------------------------------- executor.submit
\* Mutant of submit: the shutdown check is missing.
submit_NoShutdownCheck(t) ==
  /\ nsub' = nsub + 1
  /\ task' = [task EXCEPT ![nsub + 1] = t]
  /\ fstate' = [fstate EXCEPT ![nsub + 1] = "PENDING"]
  /\ pending_work_items' = pending_work_items \cup {nsub + 1}
  /\ work_ids' = Append(work_ids, nsub + 1)
  /\ ret' = "Future"
  /\ UNCHANGED <<fresult, callbacks, invoked>>

\* pool.submit(fn, *args): raises after shutdown, else creates the Future,
\* records the work item and queues its id.
submit(t) ==
  IF shutdown_thread
    THEN /\ ret' = "RuntimeError"
         /\ UNCHANGED <<nsub, futvars, pending_work_items, work_ids>>
    ELSE /\ nsub' = nsub + 1
         /\ task' = [task EXCEPT ![nsub + 1] = t]
         /\ fstate' = [fstate EXCEPT ![nsub + 1] = "PENDING"]
         /\ pending_work_items' = pending_work_items \cup {nsub + 1}
         /\ work_ids' = Append(work_ids, nsub + 1)
         /\ ret' = "Future"
         /\ UNCHANGED <<fresult, callbacks, invoked>>

\* ------------------------------------------------------------------- driver
AfterSubmit(i) == IF i + 1 = NJobs THEN "cancel" ELSE "submit"

\* res.append(pool.submit(f2, ...))   (line 248); i = nsub is the loop index.
DriverSubmit ==
  /\ pc = "submit"
  /\ nsub < NJobs
  /\ \E t \in Tasks : submit(t)
  /\ pc' = IF nsub % 2 = 0 THEN "addcb" ELSE AfterSubmit(nsub)
  /\ UNCHANGED <<k, call_queue, executing, result_queue, executed,
                 shutdown_thread, mgmt, got>>
  /\ UNCHANGED <<mapvars, procvars, queuevars, applyvars>>

\* res = pool.map(mc_pi, [...])   (line 111): Executor.map submits one call
\* per element, fs = [self.submit(fn, *args) for args in zip(*iterables)],
\* and returns the result iterator without waiting for any of them; the next
\* thing the cell does is to leave the with block.
ExecMapSubmit ==
  /\ pc = "map"
  /\ nsub < NJobs
  /\ \E t \in Tasks : submit(t)
  /\ pc' = IF nsub + 1 = NJobs THEN "mapped" ELSE "map"
  /\ UNCHANGED <<k, call_queue, executing, result_queue, executed,
                 shutdown_thread, mgmt, got>>
  /\ UNCHANGED <<mapvars, procvars, queuevars, applyvars>>

\* if i % 2 == 0: res[i].add_done_callback(...)   (lines 249-250)
DriverAddCallback ==
  /\ pc = "addcb"
  /\ add_done_callback(nsub)
  /\ pc' = AfterSubmit(nsub - 1)
  /\ UNCHANGED <<nsub, k, task, fstate, fresult, poolvars, got, ret>>
  /\ UNCHANGED <<mapvars, procvars, queuevars, applyvars>>

\* Number of add_done_callback calls made so far on future j: the callbacks
\* still listed, or, once the future is done, the calls made for it.
Registrations(j) == IF Done(j) THEN invoked[j] ELSE callbacks[j]

\* The same call made again on the future just submitted, while fewer than
\* MaxCallbacks callbacks are registered on it: a future with several
\* callbacks.
DriverAddCallbackMore ==
  /\ pc = "addcb"
  /\ Registrations(nsub) < MaxCallbacks - 1
  /\ add_done_callback(nsub)
  /\ UNCHANGED <<pc, nsub, k, task, fstate, fresult, poolvars, got, ret>>
  /\ UNCHANGED <<mapvars, procvars, queuevars, applyvars>>

\* res[4].cancel()   (line 251), the call on future j.
DriverCancelOn(j) ==
  /\ pc = "cancel"
  /\ j \in 1..nsub
  /\ cancel(j)
  /\ pc' = "collect"
  /\ UNCHANGED <<nsub, k, poolvars, got>>
  /\ UNCHANGED <<mapvars, procvars, queuevars, applyvars>>

\* The cell cancels one of the futures it holds.
DriverCancel == \E j \in Jobs : DriverCancelOn(j)

\* for i, x in enumerate(res): ... if not x.cancelled(): print(x.result())
\* (lines 255-260).  result() blocks until the future is done and re-raises a
\* stored exception, which leaves the with block.
DriverCollect ==
  /\ pc = "collect"
  /\ k <= nsub
  /\ Done(k)
  /\ IF Cancelled(k)
       THEN /\ k' = k + 1
            /\ pc' = IF k = nsub THEN "exit" ELSE "collect"
            /\ UNCHANGED got
       ELSE /\ got' = [got EXCEPT ![k] = fresult[k]]
            /\ IF fresult[k].ok
                 THEN /\ k' = k + 1
                      /\ pc' = IF k = nsub THEN "exit" ELSE "collect"
                 ELSE /\ k' = k
                      /\ pc' = "exit"
  /\ UNCHANGED <<nsub, futvars, poolvars, ret>>
  /\ UNCHANGED <<mapvars, procvars, queuevars, applyvars>>

\* Leaving the with block: pool.__exit__ calls shutdown(wait=True)  (line 245).
ShutdownBegin ==
  /\ pc \in {"exit", "mapped"}
  /\ shutdown_thread' = TRUE
  /\ pc' = "joining"
  /\ UNCHANGED <<nsub, k, futvars, pending_work_items, work_ids, call_queue,
                 executing, result_queue, executed, mgmt, got, ret>>
  /\ UNCHANGED <<mapvars, procvars, queuevars, applyvars>>

\* shutdown(wait=True) joins the queue management thread.
ShutdownReturn ==
  /\ pc = "joining"
  /\ mgmt = "exited"
  /\ pc' = "closed"
  /\ UNCHANGED <<nsub, k, futvars, poolvars, got, ret>>
  /\ UNCHANGED <<mapvars, procvars, queuevars, applyvars>>

\* A submit on the pool once shutdown has begun.
LateSubmit ==
  /\ pc \in {"joining", "closed"}
  /\ \E t \in Tasks : submit(t)
  /\ UNCHANGED <<pc, k, call_queue, executing, result_queue, executed,
                 shutdown_thread, mgmt, got>>
  /\ UNCHANGED <<mapvars, procvars, queuevars, applyvars>>

\* ------------------------------------------------- queue management thread
\* Mutant of AddCallItem: the result of set_running_or_notify_cancel() is
\* ignored, so a cancelled item is queued like any other.
AddCallItem_NoCancelCheck ==
  /\ mgmt = "running"
  /\ Len(call_queue) < CallQueueSize
  /\ work_ids # <<>>
  /\ LET j == Head(work_ids) IN
       /\ work_ids' = Tail(work_ids)
       /\ fstate' = [fstate EXCEPT ![j] =
                       IF @ = "CANCELLED" THEN "CANCELLED_AND_NOTIFIED" ELSE "RUNNING"]
       /\ call_queue' = Append(call_queue, j)
       /\ UNCHANGED pending_work_items
  /\ UNCHANGED <<pc, nsub, k, task, fresult, callbacks, invoked, executing,
                 result_queue, executed, shutdown_thread, mgmt, got, ret>>
  /\ UNCHANGED <<mapvars, procvars, queuevars, applyvars>>

\* _add_call_item_to_queue: while the call queue is not full, take the next
\* work id; set_running_or_notify_cancel() marks the future RUNNING and the
\* item goes to the call queue, or finds it cancelled and drops the item.
AddCallItem ==
  /\ mgmt = "running"
  /\ Len(call_queue) < CallQueueSize
  /\ work_ids # <<>>
  /\ LET j == Head(work_ids) IN
       /\ work_ids' = Tail(work_ids)
       /\ IF fstate[j] = "CANCELLED"
            THEN /\ fstate' = [fstate EXCEPT ![j] = "CANCELLED_AND_NOTIFIED"]
                 /\ pending_work_items' = pending_work_items \ {j}
                 /\ UNCHANGED call_queue
            ELSE /\ fstate' = [fstate EXCEPT ![j] = "RUNNING"]
                 /\ call_queue' = Append(call_queue, j)
                 /\ UNCHANGED pending_work_items
  /\ UNCHANGED <<pc, nsub, k, task, fresult, callbacks, invoked, executing,
                 result_queue, executed, shutdown_thread, mgmt, got, ret>>
  /\ UNCHANGED <<mapvars, procvars, queuevars, applyvars>>

\* Mutant of ProcessResult: a work item that raised is queued again.
ProcessResult_Retry ==
  /\ mgmt = "running"
  /\ result_queue # <<>>
  /\ LET item == Head(result_queue) IN
       /\ result_queue' = Tail(result_queue)
       /\ IF item.res.ok
            THEN /\ pending_work_items' = pending_work_items \ {item.id}
                 /\ set_outcome(item.id, item.res)
                 /\ UNCHANGED work_ids
            ELSE /\ work_ids' = Append(work_ids, item.id)
                 /\ fstate' = [fstate EXCEPT ![item.id] = "PENDING"]
                 /\ UNCHANGED <<pending_work_items, task, fresult, callbacks, invoked>>
  /\ UNCHANGED <<pc, nsub, k, call_queue, executing, executed,
                 shutdown_thread, mgmt, got, ret>>
  /\ UNCHANGED <<mapvars, procvars, queuevars, applyvars>>

\* Mutant of ProcessResult: a result item that carries an exception is
\* thrown away and its future is never resolved.
ProcessResult_DropsFailure ==
  /\ mgmt = "running"
  /\ result_queue # <<>>
  /\ LET item == Head(result_queue) IN
       /\ result_queue' = Tail(result_queue)
       /\ pending_work_items' = pending_work_items \ {item.id}
       /\ IF item.res.ok
            THEN set_outcome(item.id, item.res)
            ELSE UNCHANGED futvars
  /\ UNCHANGED work_ids
  /\ UNCHANGED <<pc, nsub, k, call_queue, executing, executed,
                 shutdown_thread, mgmt, got, ret>>
  /\ UNCHANGED <<mapvars, procvars, queuevars, applyvars>>

\* The thread reads one result item and sets it on the future.
ProcessResult ==
  /\ mgmt = "running"
  /\ result_queue # <<>>
  /\ LET item == Head(result_queue) IN
       /\ result_queue' = Tail(result_queue)
       /\ pending_work_items' = pending_work_items \ {item.id}
       /\ set_outcome(item.id, item.res)
  /\ UNCHANGED work_ids
  /\ UNCHANGED <<pc, nsub, k, call_queue, executing, executed,
                 shutdown_thread, mgmt, got, ret>>
  /\ UNCHANGED <<mapvars, procvars, queuevars, applyvars>>

\* Mutant of MgmtExit: the thread leaves as soon as shutdown is flagged.
MgmtExit_NoDrain ==
  /\ mgmt = "running"
  /\ shutdown_thread
  /\ mgmt' = "exited"
  /\ UNCHANGED <<pc, nsub, k, futvars, pending_work_items, work_ids, call_queue,
                 executing, result_queue, executed, shutdown_thread, got, ret>>
  /\ UNCHANGED <<mapvars, procvars, queuevars, applyvars>>

\* if shutting_down() and not pending_work_items: the thread stops the
\* workers and returns.
MgmtExit ==
  /\ mgmt = "running"
  /\ shutdown_thread
  /\ pending_work_items = {}
  /\ mgmt' = "exited"
  /\ UNCHANGED <<pc, nsub, k, futvars, pending_work_items, work_ids, call_queue,
                 executing, result_queue, executed, shutdown_thread, got, ret>>
  /\ UNCHANGED <<mapvars, procvars, queuevars, applyvars>>

\* ---------------------------------------------------------- worker processes
\* Mutant of WorkerTake: an item starts although every worker is busy.
WorkerTake_NoLimit ==
  /\ call_queue # <<>>
  /\ executing' = executing \cup {Head(call_queue)}
  /\ executed' = [executed EXCEPT ![Head(call_queue)] = @ + 1]
  /\ call_queue' = Tail(call_queue)
  /\ UNCHANGED <<pc, nsub, k, futvars, pending_work_items, work_ids,
                 result_queue, shutdown_thread, mgmt, got, ret>>
  /\ UNCHANGED <<mapvars, procvars, queuevars, applyvars>>

\* _process_worker: call_item = call_queue.get(); the body starts.
WorkerTake ==
  /\ call_queue # <<>>
  /\ Cardinality(executing) < max_workers
  /\ executing' = executing \cup {Head(call_queue)}
  /\ executed' = [executed EXCEPT ![Head(call_queue)] = @ + 1]
  /\ call_queue' = Tail(call_queue)
  /\ UNCHANGED <<pc, nsub, k, futvars, pending_work_items, work_ids,
                 result_queue, shutdown_thread, mgmt, got, ret>>
  /\ UNCHANGED <<mapvars, procvars, queuevars, applyvars>>

\* Mutant of WorkerFinish: an exception escapes the worker's loop and the
\* worker never takes another item.
WorkerFinish_WorkerLost ==
  /\ \E j \in executing :
       /\ j \notin {result_queue[n].id : n \in 1..Len(result_queue)}
       /\ fstate[j] = "RUNNING"
       /\ executing' = IF Call(task[j]).ok THEN executing \ {j} ELSE executing
       /\ result_queue' = Append(result_queue, [id |-> j, res |-> Call(task[j])])
  /\ UNCHANGED <<pc, nsub, k, futvars, pending_work_items, work_ids, call_queue,
                 executed, shutdown_thread, mgmt, got, ret>>
  /\ UNCHANGED <<mapvars, procvars, queuevars, applyvars>>

\* r = call_item.fn(*args) returns or raises; either way the outcome is put
\* on the result queue and the worker goes back to the call queue.
WorkerFinish ==
  /\ \E j \in executing :
       /\ executing' = executing \ {j}
       /\ result_queue' = Append(result_queue, [id |-> j, res |-> Call(task[j])])
  /\ UNCHANGED <<pc, nsub, k, futvars, pending_work_items, work_ids, call_queue,
                 executed, shutdown_thread, mgmt, got, ret>>
  /\ UNCHANGED <<mapvars, procvars, queuevars, applyvars>>

\* ================================================================== Pool.map
\* Length of the iterable handed to map, and the largest explicit chunksize.
MaxLen == 3
\* Number of inputs of the map step, range(int(1e2)) (line 827), cut down.
NInputs == 4
MaxChunk == 2
\* Pool(processes=4) (line 526), cut down.
processes == 2
\* Where the process ids of child and worker processes start.
BasePid == 20

\* The values the iterable is made of.
MapInputs == {1, 2, 3}
None == 0 - 1

\* def func(n): time.sleep(n); return n   (lines 515-517)
func(n) == n

\* fp = partial(f, b=2) with def f(a, b): return a * b   (lines 475-487)
fp(a) == a * 2

\* Mutant of f: the product of the later cell in place of the sum.
f_Product(a, b) == a * b

\* def f(a, b): return a + b   (lines 278-279 and 445-446)
f(a, b) == a + b

\* starmapstar calls f(*args) on each argument tuple; mapstar calls the
\* function on each element.
Apply(fn, x) ==
  IF fn = "fp" THEN fp(x) ELSE IF fn = "f" THEN f(x[1], x[2]) ELSE func(x)

\* def mc_pi(n): 4*s/n, where s counts the points, out of n drawn with
\* np.random.uniform, that fall inside the circle (lines 49-56).  The division
\* is kept in whole numbers.
mc_pi(n, s) == (4 * s) \div n

\* The sample sizes the cells hand to mc_pi (int(1e2), int(1e5)), cut down.
McPiSizes == {1, 2}

\* What one call mc_pi(n) can return.
McPiValues(n) == {mc_pi(n, s) : s \in 0..n}

\* Mutant of f4: the index is returned in the place of the 1.
f4_IndexForOne(pid, i) == <<pid, i, i>>

\* def f4(i): return (os.getpid(), 1, i)   (lines 813-814), run in the worker
\* process pid.
f4(pid, i) == <<pid, 1, i>>

\* The process ids of the pool's worker processes.
WorkerPids == {BasePid + w : w \in 1..processes}

\* What a worker can return for one chunk: the list of the function's results,
\* one of the possible lists when the function draws random numbers, the list
\* made in one of the worker processes when it reads its process id.
ChunkResults(fn, chunk) ==
  IF fn = "mc_pi"
    THEN {r \in [1..Len(chunk) -> 0..4] :
            \A n \in 1..Len(chunk) : r[n] \in McPiValues(chunk[n])}
    ELSE IF fn = "f4"
      THEN {[n \in 1..Len(chunk) |-> f4(pid, chunk[n])] : pid \in WorkerPids}
      ELSE {[n \in 1..Len(chunk) |-> Apply(fn, chunk[n])]}

\* Reduce step, df.groupby('pid').sum() (lines 843-879): the sum of the column
\* 'one' over the rows of each pid.
RECURSIVE SumOne(_, _, _)
SumOne(res, pid, n) ==
  IF n = 0 THEN 0
  ELSE (IF res[n][1] = pid THEN res[n][2] ELSE 0) + SumOne(res, pid, n - 1)
groupby_sum(res) ==
  [pid \in {res[n][1] : n \in 1..Len(res)} |-> SumOne(res, pid, Len(res))]

\* xs = np.arange(24)   (line 454)
XsLen == 24

\* np.array_split(np.arange(len), sections): section n (from 1); the first
\* len % sections sections hold one element more than the others.
array_split(len, sections) ==
  LET each == len \div sections
      extras == len % sections
      start(n) == (n - 1) * each + (IF n - 1 < extras THEN n - 1 ELSE extras)
      size(n) == each + (IF n <= extras THEN 1 ELSE 0)
  IN [n \in 1..sections |-> [e \in 1..size(n) |-> start(n) + e - 1]]

\* The lists map may be given.
MapLists == UNION { [1..n -> MapInputs] : n \in 0..MaxLen }

\* Pool._map_async: with chunksize None, divmod(len, len(pool) * 4) rounded
\* up; an empty iterable makes it 0.
Chunksize(len, arg) ==
  IF len = 0 THEN 0
  ELSE IF arg = 0
    THEN (len \div (processes * 4)) + (IF len % (processes * 4) # 0 THEN 1 ELSE 0)
    ELSE arg

\* Mutant of NumberLeft: the chunk that holds the remainder is not counted.
NumberLeft_NoRemainder(len, c) ==
  IF c <= 0 THEN 0 ELSE len \div c

\* MapResult.__init__: the number of chunks still to arrive.
NumberLeft(len, c) ==
  IF c <= 0 THEN 0 ELSE (len \div c) + (IF len % c # 0 THEN 1 ELSE 0)

\* Pool._get_tasks: chunk i (from 0) of the iterable.
Chunk(xs, c, i) ==
  SubSeq(xs, i * c + 1, IF (i + 1) * c < Len(xs) THEN (i + 1) * c ELSE Len(xs))

\* mapstar: the worker's result for one chunk, list(map(fn, chunk)).
mapstar(fn, chunk) == ChunkResults(fn, chunk)

\* Mutant of SetValue: a chunk's results go to the first free places.
SetValue_ArrivalOrder(value, c, i, result) ==
  LET used == Cardinality({n \in 1..Len(value) : value[n] # None})
  IN [n \in 1..Len(value) |->
        IF n > used /\ n <= used + Len(result) THEN result[n - used] ELSE value[n]]

\* MapResult._set: self._value[i*chunksize:(i+1)*chunksize] = result
SetValue(value, c, i, result) ==
  [n \in 1..Len(value) |->
     IF n > i * c /\ n <= i * c + Len(result) THEN result[n - i * c] ELSE value[n]]

InitMapAt(p) ==
  /\ m_pc = p
  /\ m_fn = "func"
  /\ m_xs = <<>>
  /\ m_chunk = 0
  /\ m_taskq = <<>>
  /\ m_running = {}
  /\ m_outq = <<>>
  /\ m_value = <<>>
  /\ m_left = 0
  /\ m_order = <<>>
  /\ m_res = <<>>
  /\ m_ref = <<>>
  /\ m_round = 1
  /\ m_ready = <<>>

InitMap == InitMapAt("idle")

\* res = pool.map(func, [3,3,3,3,3])   (line 527): the chunks are queued and
\* the caller waits for the MapResult.
MapCall ==
  /\ m_pc = "idle"
  /\ \E fn \in {"func", "fp"}, xs \in MapLists, arg \in 0..MaxChunk :
       LET c == Chunksize(Len(xs), arg) IN
         /\ m_fn' = fn
         /\ m_xs' = xs
         /\ m_chunk' = c
         /\ m_taskq' = [n \in 1..NumberLeft(Len(xs), c) |-> n - 1]
         /\ m_value' = [n \in 1..Len(xs) |-> None]
         /\ m_left' = NumberLeft(Len(xs), c)
  /\ m_pc' = "blocked"
  /\ UNCHANGED <<m_running, m_outq, m_order, m_res>>
  /\ UNCHANGED <<m_ref, m_round, m_ready>>
  /\ UNCHANGED <<execvars, procvars, queuevars, applyvars>>

\* res = pool.starmap(f, np.array_split(xs, xs.shape[0]//2))   (line 456):
\* map over the argument tuples, with the default chunksize.
MapCallPairs ==
  /\ m_pc = "idle"
  /\ LET xs == array_split(XsLen, XsLen \div 2)
         c == Chunksize(Len(xs), 0) IN
       /\ m_fn' = "f"
       /\ m_xs' = xs
       /\ m_chunk' = c
       /\ m_taskq' = [n \in 1..NumberLeft(Len(xs), c) |-> n - 1]
       /\ m_value' = [n \in 1..Len(xs) |-> None]
       /\ m_left' = NumberLeft(Len(xs), c)
  /\ m_pc' = "blocked"
  /\ UNCHANGED <<m_running, m_outq, m_order, m_res>>
  /\ UNCHANGED <<m_ref, m_round, m_ready>>
  /\ UNCHANGED <<execvars, procvars, queuevars, applyvars>>

\* res = pool.map(mc_pi, [int(1e2) for i in range(int(1e4))])   (lines 147-150,
\* 407-410): the map of mc_pi over a list of equal sample sizes, with the
\* default chunksize.
MapCallMcPi ==
  /\ m_pc = "idle"
  /\ \E len \in 0..MaxLen, size \in McPiSizes :
       LET xs == [n \in 1..len |-> size]
           c == Chunksize(len, 0) IN
         /\ m_fn' = "mc_pi"
         /\ m_xs' = xs
         /\ m_chunk' = c
         /\ m_taskq' = [n \in 1..NumberLeft(len, c) |-> n - 1]
         /\ m_value' = [n \in 1..len |-> None]
         /\ m_left' = NumberLeft(len, c)
  /\ m_pc' = "blocked"
  /\ UNCHANGED <<m_running, m_outq, m_order, m_res>>
  /\ UNCHANGED <<m_ref, m_round, m_ready>>
  /\ UNCHANGED <<execvars, procvars, queuevars, applyvars>>

\* The next cell maps the same function over the same list with an explicit
\* chunksize (lines 166-169): the result of the cell before is kept for the
\* comparison.
MapAgain ==
  /\ m_pc = "returned"
  /\ m_round = 1
  /\ \E arg \in 1..MaxChunk :
       LET c == Chunksize(Len(m_xs), arg) IN
         /\ m_chunk' = c
         /\ m_taskq' = [n \in 1..NumberLeft(Len(m_xs), c) |-> n - 1]
         /\ m_value' = [n \in 1..Len(m_xs) |-> None]
         /\ m_left' = NumberLeft(Len(m_xs), c)
  /\ m_ref' = m_res
  /\ m_round' = 2
  /\ m_res' = <<>>
  /\ m_order' = <<>>
  /\ m_pc' = "blocked"
  /\ UNCHANGED <<m_fn, m_xs, m_running, m_outq, m_ready>>
  /\ UNCHANGED <<execvars, procvars, queuevars, applyvars>>

\* res = pool.map(f4, range(int(1e2)))   (line 827): the map step, with the
\* default chunksize.
MapCallF4 ==
  /\ m_pc = "idle"
  /\ LET xs == [n \in 1..NInputs |-> n - 1]
         c == Chunksize(Len(xs), 0) IN
       /\ m_fn' = "f4"
       /\ m_xs' = xs
       /\ m_chunk' = c
       /\ m_taskq' = [n \in 1..NumberLeft(Len(xs), c) |-> n - 1]
       /\ m_value' = [n \in 1..Len(xs) |-> None]
       /\ m_left' = NumberLeft(Len(xs), c)
  /\ m_pc' = "blocked"
  /\ UNCHANGED <<m_running, m_outq, m_order, m_res>>
  /\ UNCHANGED <<m_ref, m_round, m_ready>>
  /\ UNCHANGED <<execvars, procvars, queuevars, applyvars>>

\* A worker process takes the next chunk.
MapWorkerTake ==
  /\ m_taskq # <<>>
  /\ Cardinality(m_running) < processes
  /\ m_running' = m_running \cup {Head(m_taskq)}
  /\ m_taskq' = Tail(m_taskq)
  /\ UNCHANGED <<m_pc, m_fn, m_xs, m_chunk, m_outq, m_value, m_left, m_order, m_res>>
  /\ UNCHANGED <<m_ref, m_round, m_ready>>
  /\ UNCHANGED <<execvars, procvars, queuevars, applyvars>>

\* A worker process finishes a chunk and puts (i, result) on the outqueue.
MapWorkerFinish ==
  /\ \E i \in m_running :
       \E r \in mapstar(m_fn, Chunk(m_xs, m_chunk, i)) :
         /\ m_running' = m_running \ {i}
         /\ m_outq' = Append(m_outq, [i |-> i, res |-> r])
  /\ UNCHANGED <<m_pc, m_fn, m_xs, m_chunk, m_taskq, m_value, m_left, m_order, m_res>>
  /\ UNCHANGED <<m_ref, m_round, m_ready>>
  /\ UNCHANGED <<execvars, procvars, queuevars, applyvars>>

\* The result handler thread hands the next result to MapResult._set.
MapHandleResult ==
  /\ m_outq # <<>>
  /\ LET item == Head(m_outq) IN
       /\ m_value' = SetValue(m_value, m_chunk, item.i, item.res)
       /\ m_order' = Append(m_order, item.i)
  /\ m_left' = m_left - 1
  /\ m_outq' = Tail(m_outq)
  /\ UNCHANGED <<m_pc, m_fn, m_xs, m_chunk, m_taskq, m_running, m_res>>
  /\ UNCHANGED <<m_ref, m_round, m_ready>>
  /\ UNCHANGED <<execvars, procvars, queuevars, applyvars>>

\* Mutant of MapReturn: get() does not wait for the event.
MapReturn_NoWait ==
  /\ m_pc = "blocked"
  /\ m_res' = m_value
  /\ m_pc' = "returned"
  /\ UNCHANGED <<m_fn, m_xs, m_chunk, m_taskq, m_running, m_outq, m_value, m_left, m_order>>
  /\ UNCHANGED <<m_ref, m_round, m_ready>>
  /\ UNCHANGED <<execvars, procvars, queuevars, applyvars>>

\* map returns MapResult.get() once the event is set (_number_left == 0).
MapReturn ==
  /\ m_pc = "blocked"
  /\ m_left = 0
  /\ m_res' = m_value
  /\ m_pc' = "returned"
  /\ UNCHANGED <<m_fn, m_xs, m_chunk, m_taskq, m_running, m_outq, m_value, m_left, m_order>>
  /\ UNCHANGED <<m_ref, m_round, m_ready>>
  /\ UNCHANGED <<execvars, procvars, queuevars, applyvars>>

\* ----------------------------------------------------------- Pool.map_async
\* The list of the map_async cell (line 539).
AsyncXs == <<3, 3, 3, 3, 3>>

\* MapResult.ready(): self._event.is_set(); the event is set by _set when
\* _number_left reaches 0, and at construction for an empty iterable.
ready == m_left = 0

\* res = pool.map_async(func, [3,3,3,3,3]); print("Control back!")
\* (lines 539-540): the chunks are queued and the MapResult is returned.
MapAsyncCall ==
  /\ m_pc = "idle"
  /\ LET c == Chunksize(Len(AsyncXs), 0) IN
       /\ m_fn' = "func"
       /\ m_xs' = AsyncXs
       /\ m_chunk' = c
       /\ m_taskq' = [n \in 1..NumberLeft(Len(AsyncXs), c) |-> n - 1]
       /\ m_value' = [n \in 1..Len(AsyncXs) |-> None]
       /\ m_left' = NumberLeft(Len(AsyncXs), c)
  /\ m_pc' = "control"
  /\ UNCHANGED <<m_running, m_outq, m_order, m_res>>
  /\ UNCHANGED <<m_ref, m_round, m_ready>>
  /\ UNCHANGED <<execvars, procvars, queuevars, applyvars>>

\* print(res.ready())   (lines 541 and 543)
MapAsyncReady ==
  /\ m_pc \in {"control", "waited"}
  /\ m_ready' = Append(m_ready, ready)
  /\ m_pc' = IF m_pc = "control" THEN "wait" ELSE "get"
  /\ UNCHANGED <<m_fn, m_xs, m_chunk, m_taskq, m_running, m_outq, m_value,
                 m_left, m_order, m_res, m_ref, m_round>>
  /\ UNCHANGED <<execvars, procvars, queuevars, applyvars>>

\* Mutant of MapAsyncWait: wait() returns at once.
MapAsyncWait_NoWait ==
  /\ m_pc = "wait"
  /\ m_pc' = "waited"
  /\ UNCHANGED <<m_fn, m_xs, m_chunk, m_taskq, m_running, m_outq, m_value,
                 m_left, m_order, m_res, m_ref, m_round, m_ready>>
  /\ UNCHANGED <<execvars, procvars, queuevars, applyvars>>

\* res.wait()   (line 542): self._event.wait(None) returns once the event is
\* set.
MapAsyncWait ==
  /\ m_pc = "wait"
  /\ ready
  /\ m_pc' = "waited"
  /\ UNCHANGED <<m_fn, m_xs, m_chunk, m_taskq, m_running, m_outq, m_value,
                 m_left, m_order, m_res, m_ref, m_round, m_ready>>
  /\ UNCHANGED <<execvars, procvars, queuevars, applyvars>>

\* print(res.get())   (line 544): get() waits for the event and returns
\* self._value.
MapAsyncGet ==
  /\ m_pc = "get"
  /\ ready
  /\ m_res' = m_value
  /\ m_pc' = "got"
  /\ UNCHANGED <<m_fn, m_xs, m_chunk, m_taskq, m_running, m_outq, m_value,
                 m_left, m_order, m_ref, m_round, m_ready>>
  /\ UNCHANGED <<execvars, procvars, queuevars, applyvars>>

\* ============================================================ mp.Process cells
\* Children per loop (10 at line 729, 100 at line 782), cut down.
NProcs == 3
\* store = mp.Array('i', [0]*10)   (line 780)
StoreSize == 10

Children == 1..NProcs
NoChild == [at |-> "none", pid |-> 0, mem |-> 0, tmp |-> 0]

InitProc ==
  /\ p_pc = "check_set"
  /\ p_i = 0
  /\ p_counter = 0
  /\ p_cval = 0
  /\ p_store = [n \in 0..(StoreSize - 1) |-> 0]
  /\ child = [c \in Children |-> NoChild]

Joined(c) == child[c].at = "joined"
AlivePids == {child[c].pid : c \in {d \in Children : child[d].at \notin {"none", "exited", "joined"}}}

\* counter = 0   (line 716)
CheckSet ==
  /\ p_pc = "check_set"
  /\ p_counter' = 0
  /\ p_pc' = "check_call"
  /\ UNCHANGED <<p_overlap, p_i, p_cval, p_store, child>>
  /\ UNCHANGED <<execvars, mapvars, queuevars, applyvars>>

\* f2(10) called in the parent: global counter; counter = counter + 1
\* (lines 697-699, 717).
CheckCall ==
  /\ p_pc = "check_call"
  /\ p_counter' = p_counter + 1
  /\ p_pc' = "check_print"
  /\ UNCHANGED <<p_overlap, p_i, p_cval, p_store, child>>
  /\ UNCHANGED <<execvars, mapvars, queuevars, applyvars>>

\* print(counter), then counter = 0 of the next cell   (lines 718, 727)
LoopSet ==
  /\ p_pc = "check_print"
  /\ p_counter' = 0
  /\ p_i' = 0
  /\ p_pc' = "g_loop"
  /\ UNCHANGED <<p_overlap, p_cval, p_store, child>>
  /\ UNCHANGED <<execvars, mapvars, queuevars, applyvars>>

\* Mutant of StartChild: the loop starts the next child without having joined
\* the one before.
StartChild_NoJoin ==
  /\ p_pc \in {"g_loop", "s_loop"}
  /\ p_i < NProcs
  /\ \E pid \in {BasePid + p_i, BasePid + p_i + 1} \ AlivePids :
       child' = [child EXCEPT ![p_i + 1] =
                   [at |-> IF p_pc = "g_loop" THEN "f2" ELSE "c_get",
                    pid |-> pid, mem |-> p_counter, tmp |-> 0]]
  /\ p_i' = p_i + 1
  /\ UNCHANGED <<p_overlap, p_pc, p_counter, p_cval, p_store>>
  /\ UNCHANGED <<execvars, mapvars, queuevars, applyvars>>

\* p = mp.Process(target=..., args=...); p.start()   (lines 730-731, 783-784):
\* the child is forked with a copy of the parent's globals.  In the loops as
\* written the previous child has been joined.
StartChild ==
  /\ p_pc \in {"g_loop", "s_loop"}
  /\ p_i < NProcs
  /\ p_overlap \/ \A c \in 1..p_i : Joined(c)
  /\ \E pid \in {BasePid + p_i, BasePid + p_i + 1} \ AlivePids :
       child' = [child EXCEPT ![p_i + 1] =
                   [at |-> IF p_pc = "g_loop" THEN "f2" ELSE "c_get",
                    pid |-> pid, mem |-> p_counter, tmp |-> 0]]
  /\ p_i' = p_i + 1
  /\ UNCHANGED <<p_overlap, p_pc, p_counter, p_cval, p_store>>
  /\ UNCHANGED <<execvars, mapvars, queuevars, applyvars>>

\* Mutant of ChildF2: the child writes the parent's variable.
ChildF2_SharedGlobals ==
  /\ \E c \in Children :
       /\ child[c].at = "f2"
       /\ p_counter' = p_counter + 1
       /\ child' = [child EXCEPT ![c].at = "exited"]
  /\ UNCHANGED <<p_overlap, p_pc, p_i, p_cval, p_store>>
  /\ UNCHANGED <<execvars, mapvars, queuevars, applyvars>>

\* The child runs f2(i): counter = counter + 1 on its own copy of the global
\* (lines 697-700), and exits.
ChildF2 ==
  /\ \E c \in Children :
       /\ child[c].at = "f2"
       /\ child' = [child EXCEPT ![c].mem = @ + 1, ![c].at = "exited"]
  /\ UNCHANGED <<p_overlap, p_pc, p_i, p_counter, p_cval, p_store>>
  /\ UNCHANGED <<execvars, mapvars, queuevars, applyvars>>

\* f3, counter.value += 1 (line 767): the read of counter.value, made with
\* the Value's lock held and released on return.
ChildCounterGet ==
  /\ \E c \in Children :
       /\ child[c].at = "c_get"
       /\ child' = [child EXCEPT ![c].tmp = p_cval, ![c].at = "c_set"]
  /\ UNCHANGED <<p_overlap, p_pc, p_i, p_counter, p_cval, p_store>>
  /\ UNCHANGED <<execvars, mapvars, queuevars, applyvars>>

\* f3, counter.value += 1 (line 767): the write of counter.value, which takes
\* the lock again.
ChildCounterSet ==
  /\ \E c \in Children :
       /\ child[c].at = "c_set"
       /\ p_cval' = child[c].tmp + 1
       /\ child' = [child EXCEPT ![c].at = "s_get"]
  /\ UNCHANGED <<p_overlap, p_pc, p_i, p_counter, p_store>>
  /\ UNCHANGED <<execvars, mapvars, queuevars, applyvars>>

\* f3, store[os.getpid() % 10] += 1 (line 768): the locked read.
ChildStoreGet ==
  /\ \E c \in Children :
       /\ child[c].at = "s_get"
       /\ child' = [child EXCEPT ![c].tmp = p_store[child[c].pid % StoreSize],
                                 ![c].at = "s_set"]
  /\ UNCHANGED <<p_overlap, p_pc, p_i, p_counter, p_cval, p_store>>
  /\ UNCHANGED <<execvars, mapvars, queuevars, applyvars>>

\* f3, store[os.getpid() % 10] += 1 (line 768): the locked write; the child
\* exits.
ChildStoreSet ==
  /\ \E c \in Children :
       /\ child[c].at = "s_set"
       /\ p_store' = [p_store EXCEPT ![child[c].pid % StoreSize] = child[c].tmp + 1]
       /\ child' = [child EXCEPT ![c].at = "exited"]
  /\ UNCHANGED <<p_overlap, p_pc, p_i, p_counter, p_cval>>
  /\ UNCHANGED <<execvars, mapvars, queuevars, applyvars>>

\* p.join()   (lines 732, 785)
JoinChild ==
  /\ p_pc \in {"g_loop", "s_loop"}
  /\ \E c \in Children :
       /\ child[c].at = "exited"
       /\ child' = [child EXCEPT ![c].at = "joined"]
  /\ UNCHANGED <<p_overlap, p_pc, p_i, p_counter, p_cval, p_store>>
  /\ UNCHANGED <<execvars, mapvars, queuevars, applyvars>>

\* The first loop is over; the cell at line 748 reads counter.
GlobalLoopEnd ==
  /\ p_pc = "g_loop"
  /\ p_i = NProcs
  /\ \A c \in Children : Joined(c)
  /\ p_pc' = "g_read"
  /\ UNCHANGED <<p_overlap, p_i, p_counter, p_cval, p_store, child>>
  /\ UNCHANGED <<execvars, mapvars, queuevars, applyvars>>

\* counter = mp.Value('i', 0); store = mp.Array('i', [0]*10)  (lines 779-780)
SharedInit ==
  /\ p_pc = "g_read"
  /\ p_cval' = 0
  /\ p_store' = [n \in 0..(StoreSize - 1) |-> 0]
  /\ p_i' = 0
  /\ child' = [c \in Children |-> NoChild]
  /\ p_pc' = "s_loop"
  /\ UNCHANGED <<p_overlap, p_counter>>
  /\ UNCHANGED <<execvars, mapvars, queuevars, applyvars>>

\* The second loop is over; print(counter.value), print(store[:])
\* (lines 787-788).
SharedLoopEnd ==
  /\ p_pc = "s_loop"
  /\ p_i = NProcs
  /\ \A c \in Children : Joined(c)
  /\ p_pc' = "s_print"
  /\ UNCHANGED <<p_overlap, p_i, p_counter, p_cval, p_store, child>>
  /\ UNCHANGED <<execvars, mapvars, queuevars, applyvars>>

\* ============================================================= mp.Queue cell
\* Iterations of the loop, range(10) (line 666), cut down.
NIter == 4

NoQChild == [at |-> "none", pid |-> 0, i |-> 0]

\* q = mp.Queue(); res = []   (lines 663-665)
InitQueue ==
  /\ q_pc = "start"
  /\ q_i = 0
  /\ q_child = NoQChild
  /\ q_buffer = <<>>
  /\ q_pipe = <<>>
  /\ q_res = <<>>

\* p = mp.Process(target=f1, args=(q,i,)); p.start()   (lines 667-668)
QueueStart ==
  /\ q_pc = "start"
  /\ q_i < NIter
  /\ \E pid \in {BasePid + q_i, BasePid + q_i + 1} :
       q_child' = [at |-> "f1", pid |-> pid, i |-> q_i]
  /\ q_pc' = "get"
  /\ UNCHANGED <<q_i, q_buffer, q_pipe, q_res>>
  /\ UNCHANGED <<execvars, mapvars, procvars, applyvars>>

\* The child runs f1: after the sleep, q.put((os.getpid(), i)) appends the
\* item to the queue's buffer and returns (lines 652-654).
QueueChildPut ==
  /\ q_child.at = "f1"
  /\ q_buffer' = Append(q_buffer, <<q_child.pid, q_child.i>>)
  /\ q_child' = [q_child EXCEPT !.at = "exiting"]
  /\ UNCHANGED <<q_pc, q_i, q_pipe, q_res>>
  /\ UNCHANGED <<execvars, mapvars, procvars, applyvars>>

\* The queue's feeder thread in the child writes a buffered item to the pipe.
QueueFeed ==
  /\ q_buffer # <<>>
  /\ q_pipe' = Append(q_pipe, Head(q_buffer))
  /\ q_buffer' = Tail(q_buffer)
  /\ UNCHANGED <<q_pc, q_i, q_child, q_res>>
  /\ UNCHANGED <<execvars, mapvars, procvars, applyvars>>

\* Mutant of QueueChildExit: the child exits without waiting for its feeder
\* thread, and what is still buffered is lost.
QueueChildExit_NoFlush ==
  /\ q_child.at = "exiting"
  /\ q_buffer' = <<>>
  /\ q_child' = [q_child EXCEPT !.at = "exited"]
  /\ UNCHANGED <<q_pc, q_i, q_pipe, q_res>>
  /\ UNCHANGED <<execvars, mapvars, procvars, applyvars>>

\* The child process exits: a process that has put items on a queue first
\* joins the feeder thread, that is, waits until the buffer is flushed.
QueueChildExit ==
  /\ q_child.at = "exiting"
  /\ q_buffer = <<>>
  /\ q_child' = [q_child EXCEPT !.at = "exited"]
  /\ UNCHANGED <<q_pc, q_i, q_buffer, q_pipe, q_res>>
  /\ UNCHANGED <<execvars, mapvars, procvars, applyvars>>

\* res.append(q.get())   (line 669): get() blocks until the pipe holds an item.
QueueGet ==
  /\ q_pc = "get"
  /\ q_pipe # <<>>
  /\ q_res' = Append(q_res, Head(q_pipe))
  /\ q_pipe' = Tail(q_pipe)
  /\ q_pc' = "join"
  /\ UNCHANGED <<q_i, q_child, q_buffer>>
  /\ UNCHANGED <<execvars, mapvars, procvars, applyvars>>

\* p.join()   (line 670): blocks until the child has exited; then the next
\* iteration, or the end of the loop.
QueueJoin ==
  /\ q_pc = "join"
  /\ q_child.at = "exited"
  /\ q_child' = [q_child EXCEPT !.at = "joined"]
  /\ q_i' = q_i + 1
  /\ q_pc' = IF q_i + 1 = NIter THEN "done" ELSE "start"
  /\ UNCHANGED <<q_buffer, q_pipe, q_res>>
  /\ UNCHANGED <<execvars, mapvars, procvars, applyvars>>

\* ===================================================== Pool.apply, apply_async
\* Pool(processes=4)   (lines 585, 600)
ApplyProcesses == 4

\* def f1(n) ... def f4(n): n, n**2, n**3, n**4 after a sleep (lines 560-574)
F1(n) == n
F2(n) == n * n
F3(n) == n * n * n
F4(n) == n * n * n * n

\* enumerate([f4, f2, f3, f1])   (lines 587, 602)
Fns == <<"f4", "f2", "f3", "f1">>
ApplyJobs == 0..(Len(Fns) - 1)

\* f(*[2]) for the function named fn.
ApplyCall(fn, n) ==
  IF fn = "f1" THEN F1(n)
  ELSE IF fn = "f2" THEN F2(n)
  ELSE IF fn = "f3" THEN F3(n)
  ELSE F4(n)

\* with Pool(processes=4) as pool: res = []   (lines 585-586, 600-601)
InitApplyAt(mode) ==
  /\ a_mode = mode
  /\ a_pc = "submit"
  /\ a_i = 0
  /\ a_k = 0
  /\ a_taskq = <<>>
  /\ a_running = {}
  /\ a_outq = <<>>
  /\ a_value = [j \in ApplyJobs |-> None]
  /\ a_res = <<>>

\* Mutant of ApplySubmit: apply does not wait for the result either.
ApplySubmit_NoWait ==
  /\ a_pc = "submit"
  /\ a_i < Len(Fns)
  /\ a_taskq' = Append(a_taskq, a_i)
  /\ a_i' = a_i + 1
  /\ a_pc' = IF a_i + 1 = Len(Fns) THEN "get" ELSE "submit"
  /\ UNCHANGED <<a_mode, a_k, a_running, a_outq, a_value, a_res>>
  /\ UNCHANGED <<execvars, mapvars, procvars, queuevars>>

\* pool.apply(f, [2]) is apply_async(f, [2]).get(): the task is queued and the
\* caller waits for it (line 588).  pool.apply_async(f, [2]) queues the task
\* and returns the result object, which goes into res (line 603).
ApplySubmit ==
  /\ a_pc = "submit"
  /\ a_i < Len(Fns)
  /\ a_taskq' = Append(a_taskq, a_i)
  /\ IF a_mode = "apply"
       THEN a_pc' = "wait" /\ UNCHANGED a_i
       ELSE /\ a_i' = a_i + 1
            /\ a_pc' = IF a_i + 1 = Len(Fns) THEN "get" ELSE "submit"
  /\ UNCHANGED <<a_mode, a_k, a_running, a_outq, a_value, a_res>>
  /\ UNCHANGED <<execvars, mapvars, procvars, queuevars>>

\* A worker process takes the next task.
ApplyWorkerTake ==
  /\ a_taskq # <<>>
  /\ Cardinality(a_running) < ApplyProcesses
  /\ a_running' = a_running \cup {Head(a_taskq)}
  /\ a_taskq' = Tail(a_taskq)
  /\ UNCHANGED <<a_mode, a_pc, a_i, a_k, a_outq, a_value, a_res>>
  /\ UNCHANGED <<execvars, mapvars, procvars, queuevars>>

\* A worker process finishes its task and puts the value on the outqueue.
ApplyWorkerFinish ==
  /\ \E j \in a_running :
       /\ a_running' = a_running \ {j}
       /\ a_outq' = Append(a_outq, [j |-> j, val |-> ApplyCall(Fns[j + 1], 2)])
  /\ UNCHANGED <<a_mode, a_pc, a_i, a_k, a_taskq, a_value, a_res>>
  /\ UNCHANGED <<execvars, mapvars, procvars, queuevars>>

\* The result handler thread hands the next value to ApplyResult._set.
ApplyHandleResult ==
  /\ a_outq # <<>>
  /\ a_value' = [a_value EXCEPT ![Head(a_outq).j] = Head(a_outq).val]
  /\ a_outq' = Tail(a_outq)
  /\ UNCHANGED <<a_mode, a_pc, a_i, a_k, a_taskq, a_running, a_res>>
  /\ UNCHANGED <<execvars, mapvars, procvars, queuevars>>

\* apply returns the value once it is set: res.append((i, value))  (line 588).
ApplyReturn ==
  /\ a_pc = "wait"
  /\ a_value[a_i] # None
  /\ a_res' = Append(a_res, <<a_i, a_value[a_i]>>)
  /\ a_i' = a_i + 1
  /\ a_pc' = IF a_i + 1 = Len(Fns) THEN "done" ELSE "submit"
  /\ UNCHANGED <<a_mode, a_k, a_taskq, a_running, a_outq, a_value>>
  /\ UNCHANGED <<execvars, mapvars, procvars, queuevars>>

\* print([(i, r.get()) for i, r in res])   (line 604): each get() blocks until
\* its value is set.
ApplyGet ==
  /\ a_pc = "get"
  /\ a_value[a_k] # None
  /\ a_res' = Append(a_res, <<a_k, a_value[a_k]>>)
  /\ a_k' = a_k + 1
  /\ a_pc' = IF a_k + 1 = Len(Fns) THEN "done" ELSE "get"
  /\ UNCHANGED <<a_mode, a_i, a_taskq, a_running, a_outq, a_value>>
  /\ UNCHANGED <<execvars, mapvars, procvars, queuevars>>

\* ============================================================= specifications
\* The cancel/callback cell on a ProcessPoolExecutor.
Init ==
  /\ InitExecutor /\ InitMap /\ InitProc /\ p_overlap = FALSE /\ InitQueue
  /\ InitApplyAt("apply")

Next ==
  \/ DriverSubmit
  \/ DriverAddCallback
  \/ DriverCancel
  \/ DriverCollect
  \/ ShutdownBegin
  \/ ShutdownReturn
  \/ LateSubmit
  \/ AddCallItem
  \/ ProcessResult
  \/ MgmtExit
  \/ WorkerTake
  \/ WorkerFinish

Spec == Init /\ [][Next]_vars

\* The queue cell, with the parent, the child and the child's feeder thread
\* each scheduled fairly.
NextQueue ==
  \/ QueueStart
  \/ QueueChildPut
  \/ QueueFeed
  \/ QueueChildExit
  \/ QueueGet
  \/ QueueJoin
SpecQueue ==
  /\ Init
  /\ [][NextQueue]_vars
  /\ WF_vars(QueueStart \/ QueueGet \/ QueueJoin)
  /\ WF_vars(QueueChildPut \/ QueueChildExit)
  /\ WF_vars(QueueFeed)

\* The apply cell or the apply_async cell.
InitApply ==
  /\ InitExecutor /\ InitMap /\ InitProc /\ p_overlap = FALSE /\ InitQueue
  /\ \E mode \in {"apply", "apply_async"} : InitApplyAt(mode)
NextApply ==
  \/ ApplySubmit
  \/ ApplyWorkerTake
  \/ ApplyWorkerFinish
  \/ ApplyHandleResult
  \/ ApplyReturn
  \/ ApplyGet
SpecApply == InitApply /\ [][NextApply]_vars

\* The same cell with every thread and process of the pool scheduled fairly:
\* the queue management thread, the workers (whose task bodies terminate) and
\* the caller waiting in result().
SpecFair ==
  /\ Spec
  /\ WF_vars(AddCallItem)
  /\ WF_vars(ProcessResult)
  /\ WF_vars(WorkerTake)
  /\ WF_vars(WorkerFinish)
  /\ WF_vars(DriverCollect)

\* The submit cell with futures that carry several callbacks.
NextCallbacks == Next \/ DriverAddCallbackMore
SpecCallbacks == Init /\ [][NextCallbacks]_vars

\* A map call on a multiprocessing Pool.
NextMap ==
  \/ MapCall
  \/ MapWorkerTake
  \/ MapWorkerFinish
  \/ MapHandleResult
  \/ MapReturn

SpecMap == Init /\ [][NextMap]_vars

\* The two cells that call map: Executor.map in a with block (lines 110-111)
\* and Pool.map followed by print("Control back!") (lines 526-528).  One of
\* them runs.
InitBlocking ==
  /\ \/ InitExecutorAt("map") /\ InitMapAt("off")
     \/ InitExecutorAt("off") /\ InitMapAt("idle")
  /\ InitProc
  /\ p_overlap = FALSE
  /\ InitQueue
  /\ InitApplyAt("apply")
NextBlocking ==
  \/ ExecMapSubmit
  \/ ShutdownBegin
  \/ ShutdownReturn
  \/ AddCallItem
  \/ ProcessResult
  \/ MgmtExit
  \/ WorkerTake
  \/ WorkerFinish
  \/ NextMap
SpecBlocking == InitBlocking /\ [][NextBlocking]_vars

\* The two chunksize cells: a map with the default chunksize, then the same
\* map with an explicit chunksize.
NextChunks ==
  \/ MapCall
  \/ MapCallMcPi
  \/ MapAgain
  \/ MapWorkerTake
  \/ MapWorkerFinish
  \/ MapHandleResult
  \/ MapReturn
SpecChunks == Init /\ [][NextChunks]_vars

\* The map step of the map-reduce cells.
NextMapReduce ==
  \/ MapCallF4
  \/ MapWorkerTake
  \/ MapWorkerFinish
  \/ MapHandleResult
  \/ MapReturn
SpecMapReduce == Init /\ [][NextMapReduce]_vars

\* The map_async cell.
NextAsync ==
  \/ MapAsyncCall
  \/ MapWorkerTake
  \/ MapWorkerFinish
  \/ MapHandleResult
  \/ MapAsyncReady
  \/ MapAsyncWait
  \/ MapAsyncGet
SpecAsync == Init /\ [][NextAsync]_vars

\* The starmap cell of f(a, b) = a + b.
NextPairs ==
  \/ MapCallPairs
  \/ MapWorkerTake
  \/ MapWorkerFinish
  \/ MapHandleResult
  \/ MapReturn
SpecPairs == Init /\ [][NextPairs]_vars

\* The mp.Process cells: the loops as written (each child joined before the
\* next is started) and the same loops with their children running
\* concurrently.
InitProcs ==
  /\ InitExecutor /\ InitMap /\ InitProc /\ p_overlap \in BOOLEAN /\ InitQueue
  /\ InitApplyAt("apply")

NextProc ==
  \/ CheckSet
  \/ CheckCall
  \/ LoopSet
  \/ StartChild
  \/ ChildF2
  \/ ChildCounterGet
  \/ ChildCounterSet
  \/ ChildStoreGet
  \/ ChildStoreSet
  \/ JoinChild
  \/ GlobalLoopEnd
  \/ SharedInit
  \/ SharedLoopEnd

SpecProc == InitProcs /\ [][NextProc]_vars

\* The mp.Process cells as written: each child is joined before the next is
\* started.
SpecJoined == Init /\ [][NextProc]_vars

\* ================================================================= properties
\* Vocabulary of the properties.  The states of the specification's Future: COMPLETED and FAILED are a
\* FINISHED future holding a result or an exception; a cancelled future is
\* CANCELLED whether or not the executor has taken note of it.
SpecState(s, r) ==
  CASE s = "FINISHED" -> IF r.ok THEN "COMPLETED" ELSE "FAILED"
    [] s \in {"CANCELLED", "CANCELLED_AND_NOTIFIED"} -> "CANCELLED"
    [] OTHER -> s

Failed(j) == fstate[j] = "FINISHED" /\ ~fresult[j].ok
InResultQueue(j) == \E n \in 1..Len(result_queue) : result_queue[n].id = j

\* C1: whatever order the chunks complete in, map returns a list as long as
\* its input whose i-th element is the function applied to the i-th input.
C1_MapKeepsInputOrder ==
  m_pc = "returned" =>
    /\ Len(m_res) = Len(m_xs)
    /\ \A n \in 1..Len(m_xs) : m_res[n] = Apply(m_fn, m_xs[n])

\* C1 witness: map has returned three distinct results although the result of
\* a later task arrived before that of an earlier one.
C1_Witness ==
  /\ m_pc = "returned"
  /\ Len(m_res) = 3
  /\ m_res[1] # m_res[2] /\ m_res[2] # m_res[3] /\ m_res[1] # m_res[3]
  /\ \E a, b \in 1..Len(m_order) : a < b /\ m_order[a] > m_order[b]

C7_ProcessIsolation ==
  /\ p_pc = "check_print" => p_counter = 1
  /\ p_pc \in {"g_loop", "g_read"} => p_counter = 0
  /\ p_pc = "g_loop" =>
       \A c \in Children : child[c].at \in {"exited", "joined"} => child[c].mem = 1

\* C7 witness: the loop is over, every child has incremented its copy, and
\* the children ran concurrently.
C7_Witness ==
  /\ p_pc = "g_read"
  /\ p_overlap
  /\ p_counter = 0
  /\ \A c \in Children : child[c].at = "joined" /\ child[c].mem = 1

\* C2 as stated: cancel() on a future whose body has not started executing
\* returns True and leaves the future cancelled.
C2_CancelUnstartedSucceeds ==
  [][\A j \in Jobs :
       (DriverCancelOn(j) /\ executed[j] = 0)
         => (ret' = "True" /\ fstate'[j] \in {"CANCELLED", "CANCELLED_AND_NOTIFIED"})]_vars

\* C2 as amended: cancel() on a future that is still PENDING returns True and
\* makes it CANCELLED, and the body of a cancelled future never executes.
C2_CancelPendingSucceeds ==
  /\ [][\A j \in Jobs :
          (DriverCancelOn(j) /\ fstate[j] = "PENDING")
            => (ret' = "True" /\ fstate'[j] = "CANCELLED")]_vars
  /\ [](\A j \in Jobs : Cancelled(j) => (executed[j] = 0 /\ j \notin executing))

\* C2 witness: the pool has shut down with a future that was cancelled while
\* pending and never ran.
C2_Witness ==
  /\ pc = "closed"
  /\ ret = "True"
  /\ \E j \in Jobs : fstate[j] = "CANCELLED_AND_NOTIFIED" /\ executed[j] = 0

\* C3: cancel() on a RUNNING or finished (COMPLETED, FAILED) future returns
\* False and changes no future, no queue and nothing else of the pool.
C3_CancelRunningOrDoneNoEffect ==
  [][\A j \in Jobs :
       (DriverCancelOn(j) /\ fstate[j] \in {"RUNNING", "FINISHED"})
         => (ret' = "False" /\ UNCHANGED <<futvars, poolvars, nsub, got>>)]_vars

\* C3 witness: a cancel() has returned False while a job was executing and
\* another had already failed.
C3_Witness ==
  /\ ret = "False"
  /\ pc = "collect"
  /\ \E i, j \in Jobs : Failed(i) /\ j \in executing

\* C5: a future only moves PENDING -> RUNNING, PENDING -> CANCELLED and
\* RUNNING -> COMPLETED or FAILED; a terminal future never changes again and
\* its outcome is written only by the step that finishes it.
C5_FutureTransitions ==
  [][\A j \in Jobs :
       LET a == SpecState(fstate[j], fresult[j])
           b == SpecState(fstate'[j], fresult'[j])
       IN /\ a # b =>
               \/ a = "NONE" /\ b = "PENDING"
               \/ a = "PENDING" /\ b \in {"RUNNING", "CANCELLED"}
               \/ a = "RUNNING" /\ b \in {"COMPLETED", "FAILED"}
          /\ a \in {"COMPLETED", "FAILED", "CANCELLED"} => fresult'[j] = fresult[j]
          /\ fresult'[j] # fresult[j] => (a = "RUNNING" /\ b \in {"COMPLETED", "FAILED"})]_vars

\* C5 witness: the three terminal states are present together.
C5_Witness ==
  \E a, b, c \in Jobs :
    /\ Failed(a)
    /\ fstate[b] = "FINISHED" /\ fresult[b].ok
    /\ Cancelled(c)

C8_ShutdownWaits ==
  pc = "closed" =>
    /\ \A j \in 1..nsub : Done(j)
    /\ \A j \in 1..nsub : Cancelled(j) \/ executed[j] = 1
    /\ pending_work_items = {} /\ work_ids = <<>> /\ call_queue = <<>>
    /\ executing = {} /\ result_queue = <<>>

\* C8 witness: shutdown returned after the driver left the with block early
\* (a result() raised) with all jobs submitted.
C8_Witness ==
  /\ pc = "closed"
  /\ nsub = NJobs
  /\ k < nsub

\* C9: a submit after shutdown has begun raises and changes nothing: no
\* future, no work item, no queue entry.
C9_SubmitAfterShutdownRejected ==
  [][LateSubmit =>
       (ret' = "RuntimeError" /\ UNCHANGED <<nsub, futvars, poolvars, got, pc, k>>)]_vars

\* C9 witness: a submit was refused while the pool was still draining.
C9_Witness == ret = "RuntimeError" /\ pc = "joining" /\ executing # {}

\* C10: a task that raises fails only its own future: the future holds the
\* exception, result() hands it to the caller, the worker is free again and
\* every task gets the outcome of its own call.
C10_FailureIsolated ==
  /\ \A j \in Jobs :
       /\ fstate[j] = "FINISHED" => fresult[j] = Call(task[j])
       /\ got[j] # NoResult => (fstate[j] = "FINISHED" /\ got[j] = fresult[j])
       /\ j \in executing => (fstate[j] = "RUNNING" /\ ~InResultQueue(j))
  /\ pc = "closed" => \A j \in 1..nsub : Cancelled(j) \/ fstate[j] = "FINISHED"

\* C10 witness: the pool has shut down; one task failed and its exception
\* reached the caller, and a task submitted after it completed.
C10_Witness ==
  /\ pc = "closed"
  /\ \E i, j \in Jobs :
       /\ i < j
       /\ Failed(i) /\ ~got[i].ok
       /\ fstate[j] = "FINISHED" /\ fresult[j].ok
C11_BecomesDone(j) == ~Done(j) /\ Done(j)'
\* C11: no callback of a future is invoked while the future is PENDING or
\* RUNNING; the step that takes a future to a terminal state, whichever one
\* (finished with a result, finished with an exception, cancelled), invokes
\* every callback registered on it, however many there are; a callback
\* registered on a future already terminal is invoked by the registration.
C11_CallbacksInvokedAtTerminal ==
  [][\A j \in Jobs :
       /\ ~Done(j) => invoked[j] = 0
       /\ C11_BecomesDone(j) => invoked'[j] = callbacks[j]
       /\ ~Done(j)' => invoked'[j] = 0
       /\ (DriverAddCallback \/ DriverAddCallbackMore) /\ j = nsub /\ Done(j)
            => invoked'[j] = invoked[j] + 1]_vars
C11_Witness ==
  /\ \E j \in Jobs : Cancelled(j) /\ invoked[j] = MaxCallbacks
  /\ \E j \in Jobs : Failed(j) /\ invoked[j] = MaxCallbacks

C12_Starts(j) == j \notin executing /\ j \in executing'
\* C12: at most max_workers work items are executing at any time; an item
\* starts executing only in a step taken while a worker is free, and until
\* then it stays in the queues (pending work item, not executing).
C12_BoundedConcurrency ==
  [][/\ Cardinality(executing) <= max_workers
     /\ Cardinality(executing') <= max_workers
     /\ \A j \in Jobs :
          /\ C12_Starts(j) => /\ Cardinality(executing) < max_workers
                              /\ j \in pending_work_items
          /\ j \in 1..nsub /\ ~Done(j) /\ j \notin executing /\ ~InResultQueue(j)
              /\ Cardinality(executing) = max_workers
                => j \notin executing']_vars
C12_Witness ==
  /\ Cardinality(executing) = max_workers
  /\ call_queue # <<>>
  /\ work_ids # <<>>

\* C13 as the specification states it: the map of f(a, b) = a + b over the
\* pairs (0,1), (2,3), ..., (22,23) returns the ten sums 1, 5, ..., 37.
C13_TenSums ==
  m_pc = "returned" /\ m_fn = "f" => m_res = <<1, 5, 9, 13, 17, 21, 25, 29, 33, 37>>
\* C13, amended: the pairs (0,1), (2,3), ..., (22,23) are twelve, and the map
\* of f(a, b) = a + b over them returns the twelve sums 1, 5, ..., 45 in the
\* order of the pairs.
C13_TwelveSums ==
  m_pc = "returned" /\ m_fn = "f"
    => m_res = <<1, 5, 9, 13, 17, 21, 25, 29, 33, 37, 41, 45>>
C13_Witness ==
  /\ m_pc = "returned"
  /\ m_fn = "f"
  /\ Len(m_xs) = 12
  /\ m_xs[12] = <<22, 23>>
  /\ \E n \in 1..(Len(m_order) - 1) : m_order[n] > m_order[n + 1]

MapChunksDone ==
  /\ m_taskq = <<>>
  /\ m_running = {}
  /\ m_outq = <<>>
  /\ Len(m_order) = NumberLeft(Len(m_xs), m_chunk)
\* C14 as the specification states it: the statement after a map call is
\* reached only when every task of the map is terminal, for Executor.map
\* (pc = "mapped": the assignment res = pool.map(...) has ended) as for
\* Pool.map (m_pc = "returned").
C14_EveryMapBlocks ==
  /\ pc = "mapped" => \A j \in 1..nsub : Done(j)
  /\ m_pc = "returned" => MapChunksDone
\* C14, amended: Pool.map returns only when every chunk of the map has been
\* executed and its result stored; Executor.map returns once all calls are
\* submitted, and it is the with block that is left (shutdown has returned)
\* only when every call of the map is terminal.
C14_PoolMapBlocks ==
  /\ m_pc = "returned" => MapChunksDone
  /\ pc = "mapped" => nsub = NJobs
  /\ pc = "closed" => nsub = NJobs /\ \A j \in 1..nsub : Done(j)
C14_Witness ==
  /\ m_pc = "returned"
  /\ Len(m_xs) = MaxLen
  /\ Len(m_order) > 1

\* C15: under fair scheduling every submitted future that is PENDING or
\* RUNNING eventually is done, and the caller waiting in result() on future j
\* eventually leaves that call; result() hands out a value only for a
\* FINISHED future, and it is that future's result.
C15_EveryTaskTerminates ==
  /\ \A j \in Jobs : (fstate[j] \in {"PENDING", "RUNNING"}) ~> Done(j)
  /\ \A j \in Jobs : (pc = "collect" /\ k = j) ~> (pc # "collect" \/ k # j)
  /\ [][\A j \in Jobs : got'[j] # got[j]
                            => fstate[j] = "FINISHED" /\ got'[j] = fresult[j]]_vars
C15_Witness ==
  /\ pc = "collect"
  /\ fstate[k] \in {"PENDING", "RUNNING"}
  /\ nsub > max_workers
  /\ Cardinality(executing) = max_workers
  /\ k \notin executing

\* Every chunk of the running map has been handled exactly once, and the
\* chunks cut the input into consecutive pieces that cover it.
EachInputOnce ==
  /\ Len(m_order) = NumberLeft(Len(m_xs), m_chunk)
  /\ \A i \in 0..(NumberLeft(Len(m_xs), m_chunk) - 1) :
       Cardinality({n \in 1..Len(m_order) : m_order[n] = i}) = 1
  /\ \A n \in 1..Len(m_xs) :
       Cardinality({i \in 0..(NumberLeft(Len(m_xs), m_chunk) - 1) :
                      n > i * m_chunk /\ n <= i * m_chunk + Len(Chunk(m_xs, m_chunk, i))}) = 1

\* C16 as the specification states it: for the same function and inputs the
\* map with an explicit chunksize returns what the map with the default
\* chunksize returned, and processes every input exactly once.
C16_SameResultAnyChunksize ==
  m_pc = "returned" /\ m_round = 2 => m_res = m_ref /\ EachInputOnce
\* C16, amended: that holds for a function whose result is fixed by its
\* argument; mc_pi, the function of the chunksize cells, draws random numbers,
\* and its two maps agree in length and process every input exactly once, each
\* result being one that mc_pi can return for that input.
C16_SameResultIfDeterministic ==
  m_pc = "returned" /\ m_round = 2 =>
    /\ EachInputOnce
    /\ Len(m_res) = Len(m_ref)
    /\ m_fn # "mc_pi" => m_res = m_ref
    /\ m_fn = "mc_pi" => \A n \in 1..Len(m_xs) : m_res[n] \in McPiValues(m_xs[n])
C16_Witness ==
  /\ m_pc = "returned"
  /\ m_round = 2
  /\ m_fn = "fp"
  /\ Len(m_xs) = MaxLen
  /\ m_chunk = MaxChunk
  /\ m_res = m_ref

RECURSIVE SumStore(_, _)
SumStore(store, n) == IF n = 0 THEN 0 ELSE store[n - 1] + SumStore(store, n - 1)
Alive(c) == child[c].at \notin {"none", "exited", "joined"}

\* C17: with the loops as written, a child is started only when the child
\* before it has been joined, so at most one child is alive in any state; when
\* the loop over the NProcs children running f3 is over, counter.value is
\* NProcs and the entries of store sum to NProcs.
C17_JoinedLoopCountsAll ==
  /\ \A c \in Children : c > 1 /\ child[c].at # "none" => Joined(c - 1)
  /\ Cardinality({c \in Children : Alive(c)}) <= 1
  /\ p_pc = "s_print" => p_cval = NProcs /\ SumStore(p_store, StoreSize) = NProcs
C17_Witness ==
  /\ p_pc = "s_print"
  /\ p_cval = NProcs
  /\ \E a, b \in 0..(StoreSize - 1) : a # b /\ p_store[a] > 0 /\ p_store[b] > 0

RECURSIVE SumOver(_, _)
SumOver(g, S) ==
  IF S = {} THEN 0
  ELSE LET p == CHOOSE x \in S : TRUE IN g[p] + SumOver(g, S \ {p})

\* C18: however the inputs are spread over the worker processes, the map step
\* returns one triple (pid, 1, i) for each input i, in input order, the pid
\* being that of a worker process; the per-pid sums of the reduce step add up
\* to the number of inputs; and no step of the map writes the global counter,
\* the shared counter or the shared store.
C18_MapReduceCountsAll ==
  /\ [](m_pc = "returned" /\ m_fn = "f4" =>
          /\ Len(m_res) = NInputs
          /\ \A n \in 1..NInputs :
               /\ m_res[n][1] \in WorkerPids
               /\ m_res[n][2] = 1
               /\ m_res[n][3] = n - 1
          /\ SumOver(groupby_sum(m_res), DOMAIN groupby_sum(m_res)) = NInputs)
  /\ [][p_counter' = p_counter /\ p_cval' = p_cval /\ p_store' = p_store]_vars
C18_Witness ==
  /\ m_pc = "returned"
  /\ m_fn = "f4"
  /\ Cardinality(DOMAIN groupby_sum(m_res)) = processes
  /\ \E n \in 1..(Len(m_order) - 1) : m_order[n] > m_order[n + 1]

\* C19: in each iteration the parent starts one child, takes one item from the
\* queue and then joins the child, and the child of one iteration is joined
\* before the next is started; until the loop is over some step is always
\* possible (no deadlock), and under fair scheduling the loop ends; between
\* iterations and at the end the queue holds nothing; at the end res has one
\* entry per iteration, the second components being 0, 1, ... in that order.
C19_QueueLoopTerminates ==
  /\ [](q_pc # "done" => ENABLED NextQueue)
  /\ [](q_pc \in {"start", "done"} =>
          /\ q_buffer = <<>> /\ q_pipe = <<>>
          /\ q_child.at \in {"none", "joined"}
          /\ Len(q_res) = q_i)
  /\ [](q_pc = "join" => Len(q_res) = q_i + 1 /\ q_pipe = <<>> /\ q_buffer = <<>>)
  /\ [](q_pc = "done" =>
          /\ Len(q_res) = NIter
          /\ \A n \in 1..NIter : q_res[n][2] = n - 1)
  /\ <>(q_pc = "done")
C19_Witness ==
  /\ q_pc = "done"
  /\ Len(q_res) = NIter
  /\ q_res[1][1] # q_res[2][1]

ApplyInFlight == Len(a_taskq) + Cardinality(a_running) + Len(a_outq)

\* C20: in the apply loop every task submitted earlier is complete when a task
\* is submitted, so at most one task is in the pool and at most one executes;
\* in the apply_async loop no result is retrieved before all four tasks are
\* submitted, and at most four execute at once; both loops end with the list
\* [(0,16), (1,4), (2,8), (3,2)], whatever order the tasks complete in.
C20_ApplyBlocksAsyncOverlaps ==
  /\ a_mode = "apply" =>
       /\ ApplyInFlight <= 1
       /\ Cardinality(a_running) <= 1
       /\ \A j \in ApplyJobs : j < a_i => a_value[j] # None
       /\ a_pc = "submit" => ApplyInFlight = 0
  /\ a_mode = "apply_async" =>
       /\ Cardinality(a_running) <= ApplyProcesses
       /\ a_pc = "submit" => a_res = <<>>
       /\ a_res # <<>> => a_i = Len(Fns)
  /\ a_pc = "done" => a_res = <<<<0, 16>>, <<1, 4>>, <<2, 8>>, <<3, 2>>>>
C20_Witness ==
  /\ a_mode = "apply_async"
  /\ Cardinality(a_running) = 4
  /\ a_res = <<>>

AfterWait == m_pc \in {"waited", "get", "got"}

\* C21: map_async returns while none of its chunks has been taken, so the
\* caller goes on without waiting; wait() returns only when every chunk has
\* been executed and stored, and from then on ready() is true, the second
\* print(res.ready()) prints True, get() can return at once, and what it
\* returns is [3,3,3,3,3], the function applied to the inputs in order.
C21_MapAsyncDoesNotBlock ==
  /\ [](m_pc = "control" => ENABLED MapAsyncReady)
  /\ [][m_pc = "idle" /\ m_pc' = "control"
          => m_left' = Len(AsyncXs) /\ m_running' = {} /\ ~ready']_vars
  /\ [][m_pc = "wait" /\ m_pc' # "wait" => MapChunksDone /\ ready]_vars
  /\ [](AfterWait => ready /\ MapChunksDone)
  /\ [](m_pc \in {"get", "got"} => Len(m_ready) = 2 /\ m_ready[2])
  /\ [](m_pc = "get" => ENABLED MapAsyncGet)
  /\ [](m_pc = "got" => m_res = <<3, 3, 3, 3, 3>>)
C21_Witness ==
  /\ m_pc = "got"
  /\ m_ready = <<FALSE, TRUE>>
  /\ \E n \in 1..(Len(m_order) - 1) : m_order[n] > m_order[n + 1]

====
